---------------------------- MODULE Spec2Model ----------------------------
(***************************************************************************)
(* The per-container network sidecar of pkg/sidecar (K8sNetwork):          *)
(* ConfigureNetwork, its attach goroutine with retry, the select against   *)
(* the 30 s timer, and the active-link table.                              *)
(*                                                                         *)
(* One ConfigureNetwork call is split at the points where it blocks on an  *)
(* external call (CNI plugin, kernel) or on the channel, so that the       *)
(* goroutine it starts can interleave with it and outlive it.              *)
(***************************************************************************)
EXTENDS Integers, Sequences, FiniteSets, TLC

(***************************************************************************)
(* Bounds of the model.                                                    *)
(***************************************************************************)
\* number of ConfigureNetwork calls in one behaviour
MaxCalls == 2
\* retry on its own: the attempts asked for, and the call of f that succeeds
MaxAttempts == 4
MaxK == 5
\* the Close calls made
MaxCloses == 3
\* the checks enlisted with a helper, and its RunChecks calls
MaxChecks == 3
MaxRuns == 2

(***************************************************************************)
(* Values.                                                                 *)
(***************************************************************************)
\* a nil pointer, and the nil error as ConfigureNetwork returns it
Nil == [nil |-> TRUE]
NilErr == "nil"

\* the name of the one data network the sidecar manages, and its interface
defaultDataNetwork == "default"
dataNetworkIfname == "eth1"

Networks == {defaultDataNetwork, "unknown"}

\* a net.IPNet: an IP and a prefix length
IPNet(ip, bits) == [ip |-> ip, bits |-> bits]
V4Addrs == {IPNet(5, 24), IPNet(5, 16), IPNet(6, 24)}
V6Addr == [ip |-> 66, bits |-> 64]
\* the address the plugin hands out of the subnet pool, and a stray second one
PoolAddr == IPNet(9, 24)
ExtraAddr == IPNet(7, 24)

\* the shaping a cfg asks for: default profile, rules and routing policy
Shapings ==
    {[Default |-> "p1", Rules |-> "r1", RoutingPolicy |-> "deny"],
     [Default |-> "p2", Rules |-> "r2", RoutingPolicy |-> "allow"]}

\* network.Config, as far as ConfigureNetwork reads it
Config(network, enable, v4, v6, s) ==
    [Network |-> network, Enable |-> enable, IPv4 |-> v4, IPv6 |-> v6,
     Default |-> s.Default, Rules |-> s.Rules, RoutingPolicy |-> s.RoutingPolicy]

Configs ==
    {Config(network, enable, v4, v6, s) :
        network \in Networks, enable \in BOOLEAN, v4 \in V4Addrs \cup {Nil},
        v6 \in {Nil, V6Addr}, s \in Shapings}

\* the errors ConfigureNetwork returns
ErrUnsupportedNetwork == "configured network is not default"
ErrDetachDisable == "when 6"
ErrDetachChange == "when 5"
ErrIPv6 == "ipv6 not supported"
ErrNetconf == "failed to generate new network config list"
ErrAttach == "failed to add network through cni plugin"
ErrTimeout == "timeout waiting on cninet.AddNetworkList"
ErrLinkByName == "failed to get link by name"
ErrRoutes == "failed to get routes"
ErrNetlink == "failed to register new netlink"
ErrListV4 == "failed to list v4 addrs"
ErrShape == "failed to shape link"
ErrRules == "failed to add rules"
ErrPolicy == "failed to handle routing policy"
Panic == "panic"

VARIABLES
    skipConfig,       \* the local switch of ConfigureNetwork
    activeLinks,      \* K8sNetwork.activeLinks: network name -> k8sLink
    externalRouting,  \* K8sNetwork.externalRouting: interface name -> routes
    pc,               \* where the ConfigureNetwork call in flight stands
    cfg,              \* the cfg of the call in flight or of the last call
    ret,              \* what the last completed call returned
    calls,            \* number of ConfigureNetwork calls made so far
    gor,              \* the attach goroutines, by the call that started them
    attached,         \* CNI plugin: attachments added and not yet deleted
    kernel,           \* kernel: shaping, rules and routing policy in force
    detachCalls,      \* DelNetworkList calls of the call in flight / last call
    delArgs,          \* arguments of the last DelNetworkList call
    applied,          \* Shape/AddRules/policy steps run by the call, in order
    pre,              \* what the call in flight (or the last call) started from
    rs,               \* one run of retry(attempts, sleep, f) on its own
    nc,               \* one call of newNetworkConfigList(t, addr) on its own
    ops,              \* K8sNetwork.nl and the Close and ListActive calls made
    hc,               \* a SequentialHealthcheckHelper and its RunChecks call
    k8,               \* a ClusterK8sRunner.Run call and its pod goroutines
    fc                \* a ForEachCase call of the test plan's utilities

vars == <<skipConfig, activeLinks, externalRouting, pc, cfg, ret, calls,
          gor, attached, kernel, detachCalls, delArgs, applied, pre, rs, nc,
          ops, hc, k8, fc>>

\* the runner and the test plan's utilities, which no sidecar code touches
runVars == <<k8, fc>>

\* what ConfigureNetwork never touches: the two functions run on their own,
\* the handle and the results of Close and ListActive, the healthcheck helper
fnVars == <<rs, nc, ops, hc, runVars>>

(***************************************************************************)
(* Maps (Go map[string]...) as functions on the set of their keys.         *)
(***************************************************************************)
EmptyMap == <<>>
MapSet(m, key, val) == [k \in DOMAIN m \cup {key} |-> IF k = key THEN val ELSE m[k]]
\* a delete that removes nothing
MapDeleteNothing(m, key) == m
MapDelete(m, key) == [k \in DOMAIN m \ {key} |-> m[k]]

\* ret while a call is in flight, and before the first call
Running == "running"
NoRet == "none"

(***************************************************************************)
(* CNI configuration and runtime record.                                   *)
(***************************************************************************)
\* String() losing the prefix length
IPNetStringHost(a) == <<a.ip, "/", 32>>
\* net.IPNet.String(): the text "ip/bits"
IPNetString(a) == <<a.ip, "/", a.bits>>
\* the plugin reading the address text back
ParseCIDR(s) == IPNet(s[1], s[3])

\* K8sNetwork.subnet, the text of the pool subnet
subnet == <<0, "/", 16>>

\* newNetworkConfigList taking any unknown kind for a subnet
newNetworkConfigListLax(t, addr) ==
    CASE t = "ip"  -> [netconf |-> [ipam |-> "ips", value |-> addr], err |-> Nil]
      [] OTHER     -> [netconf |-> [ipam |-> "subnet", value |-> addr], err |-> Nil]

\* newNetworkConfigList(t, addr): the config list, or the error
newNetworkConfigList(t, addr) ==
    CASE t = "net" -> [netconf |-> [ipam |-> "subnet", value |-> addr], err |-> Nil]
      [] t = "ip"  -> [netconf |-> [ipam |-> "ips", value |-> addr], err |-> Nil]
      [] OTHER     -> [netconf |-> Nil, err |-> [error |-> "unknown type"]]

\* the libcni.RuntimeConf built for every attach
RuntimeConf ==
    [ContainerID |-> "container", NetNS |-> "netns", IfName |-> dataNetworkIfname]

\* the kind and value ConfigureNetwork passes to newNetworkConfigList
NetconfFor(c) ==
    IF c.IPv4 = Nil
    THEN newNetworkConfigList("net", subnet)
    ELSE newNetworkConfigList("ip", IPNetString(c.IPv4))

(***************************************************************************)
(* The CNI plugin and the kernel, as far as the sidecar sees them.         *)
(***************************************************************************)
\* the address the plugin is asked to put on the interface
RequestedAddr(netconf) ==
    IF netconf.ipam = "ips" THEN ParseCIDR(netconf.value) ELSE PoolAddr

\* what a successful attach may leave on the interface: the expected single
\* address, none, or the address and a stray one
AssignedAddrs(netconf) ==
    {<<RequestedAddr(netconf)>>, <<>>, <<RequestedAddr(netconf), ExtraAddr>>}

RECURSIVE Flatten(_)
Flatten(s) == IF s = <<>> THEN <<>> ELSE Head(s).addrs \o Flatten(Tail(s))

\* NetlinkLink.ListV4(): the IPv4 addresses now on the data interface
ListV4 == Flatten(attached)

RECURSIVE RemoveFirst(_, _)
RemoveFirst(s, netconf) ==
    IF s = <<>> THEN <<>>
    ELSE IF Head(s).netconf = netconf THEN Tail(s)
    ELSE <<Head(s)>> \o RemoveFirst(Tail(s), netconf)

\* a successful DelNetworkList: the attachment made with netconf is gone
PluginDel(s, netconf) == RemoveFirst(s, netconf)
\* a successful AddNetworkList
PluginAdd(s, netconf, addrs) == Append(s, [netconf |-> netconf, addrs |-> addrs])

NoShape == "none"
NoKernel == [shape |-> NoShape, rules |-> NoShape, policy |-> Nil]
\* the interface is deleted with the attachment: its qdiscs go with it
LinkGone(k) == [k EXCEPT !.shape = NoShape, !.rules = NoShape]
\* link.Shape(profile), link.AddRules(rules): replace what is installed
Shape(k, profile) == [k EXCEPT !.shape = profile]
AddRules(k, rules) == [k EXCEPT !.rules = rules]
\* handleRoutingPolicy(externalRouting, policy, nl)
handleRoutingPolicy(k, routing, policy) ==
    [k EXCEPT !.policy = [policy |-> policy, keep |-> routing]]

\* getK8sRoutes: the routes of the namespace as they are when it is called;
\* a routing policy that has been applied shows in them
getK8sRoutes(k) ==
    [routes |-> "namespace",
     under |-> IF k.policy = Nil THEN "no policy" ELSE k.policy.policy]

(***************************************************************************)
(* The attach goroutine (lines 127-133) and retry (lines 280-296).         *)
(***************************************************************************)
\* the attempts ConfigureNetwork gives retry
RetryAttempts == 3

NoGoroutine ==
    [pc |-> "none", i |-> 0, err |-> Nil, netconf |-> Nil, ctx |-> FALSE]

Goroutines == 1..MaxCalls

\* the loop bound off by one
RetryBreakLate(i, attempts) == i >= attempts
\* giving up after the first failure
RetryBreakAtOnce(i, attempts) == TRUE
\* retry: leave the loop after a failed call?
RetryBreak(i, attempts) == i >= attempts - 1

\* fmt.Errorf("after %d attempts, last error: %s", attempts, err)
ErrAfterAttempts(attempts, err) ==
    [error |-> "after attempts", attempts |-> attempts, last |-> err]

(***************************************************************************)
(* Initial state.                                                          *)
(***************************************************************************)
\* the netlink handle n.nl is open; Close and ListActive were not called
NoOps == [nl |-> "open", closes |-> 0, released |-> 0, closeRet |-> NoRet,
          listed |-> {"not called"}]
\* a helper with nothing enlisted and an empty report
NoChecks ==
    [toDo |-> <<>>, pc |-> "idle", runs |-> 0, fix |-> FALSE, idx |-> 0,
     Checks |-> <<>>, Fixes |-> <<>>, trace |-> <<>>, base |-> <<0, 0, 0>>,
     ret |-> <<"none">>]

\* Run was not called: no pod goroutine exists
NoRun ==
    [pc |-> "idle", runs |-> 0, n |-> 0, now |-> 0, pods |-> <<>>,
     ret |-> <<"none">>]
\* ForEachCase was not called
NoCases ==
    [pc |-> "idle", runs |-> 0, sizes |-> [given |-> FALSE, list |-> <<>>],
     dir |-> [given |-> FALSE, list |-> <<>>], tests |-> <<>>, err |-> "nil",
     i |-> 0, fnCalls |-> <<>>, ret |-> <<"none">>]

InitState ==
    /\ activeLinks = EmptyMap
    /\ externalRouting = EmptyMap
    /\ pc = "idle"
    /\ cfg = Nil
    /\ ret = NoRet
    /\ calls = 0
    /\ gor = [g \in Goroutines |-> NoGoroutine]
    /\ attached = <<>>
    /\ kernel = NoKernel
    /\ detachCalls = 0
    /\ delArgs = Nil
    /\ applied = <<>>
    /\ pre = Nil
    /\ ops = NoOps
    /\ hc = NoChecks
    /\ k8 = NoRun
    /\ fc = NoCases

\* no run of retry or of newNetworkConfigList on its own
NoRetry ==
    [pc |-> "idle", attempts |-> 0, k |-> 0, i |-> 0, log |-> <<>>, ret |-> Nil]
NoBuild == [pc |-> "idle", t |-> "", addr |-> <<>>, c |-> Nil, out |-> Nil]
NoFn == rs = NoRetry /\ nc = NoBuild

\* the program as written: line 49
InitAsWritten == skipConfig = TRUE /\ InitState /\ NoFn
\* the configuration path below line 53, with the switch off
Init == skipConfig = FALSE /\ InitState /\ NoFn

(***************************************************************************)
(* SequentialHealthcheckHelper, pkg/runner/healthcheck_common.go lines     *)
(* 44-97. What a Checker or Fixer closure returns is chosen when it is     *)
(* called.                                                                 *)
(***************************************************************************)
CheckNames == {"a", "b"}

\* what RunChecks returned
HcNone == <<"none">>
HcRunning == <<"running">>
HcNil == <<"nil">>
\* the error the Checker of the i-th enlisted check returned
CheckerErr(i) == <<"checker error", i>>

\* api.HealthcheckItem, without the message
Item(name, status) == [Name |-> name, Status |-> status]

\* lines 49-51: Enlist(name, c, f)
Enlist(name) ==
    /\ hc.pc = "idle"
    /\ Len(hc.toDo) < MaxChecks
    /\ hc' = [hc EXCEPT !.toDo = Append(@, [Name |-> name])]
    /\ UNCHANGED <<skipConfig, activeLinks, externalRouting, pc, cfg, ret, calls,
                   gor, attached, kernel, detachCalls, delArgs, applied, pre,
                   rs, nc, ops, runVars>>

\* the loop leaving out every other element
HcAdvanceSkips(h) ==
    IF h.idx + 1 < Len(h.toDo)
    THEN [h EXCEPT !.idx = @ + 2, !.pc = "check"]
    ELSE [h EXCEPT !.pc = "idle", !.ret = HcNil]

\* the loop of line 54 moves on from element i: the next element, or line 96
HcAdvance(h) ==
    IF h.idx < Len(h.toDo)
    THEN [h EXCEPT !.idx = @ + 1, !.pc = "check"]
    ELSE [h EXCEPT !.pc = "idle", !.ret = HcNil]

\* lines 53-54: RunChecks(ctx, fix) is called
RunChecks(fix) ==
    /\ hc.pc = "idle"
    /\ hc.runs < MaxRuns
    /\ hc' = HcAdvance([hc EXCEPT !.runs = @ + 1, !.fix = fix, !.idx = 0,
                                  !.trace = <<>>, !.ret = HcRunning,
                                  !.base = <<Len(hc.Checks), Len(hc.Fixes),
                                             Len(hc.toDo)>>])
    /\ UNCHANGED <<skipConfig, activeLinks, externalRouting, pc, cfg, ret, calls,
                   gor, attached, kernel, detachCalls, delArgs, applied, pre,
                   rs, nc, ops, runVars>>

\* the call of a closure, as the run's trace records it
Called(h, what, out) ==
    Append(h.trace, [call |-> what, at |-> h.idx, name |-> h.toDo[h.idx].Name,
                     out |-> out])

\* HcCheck calling the Fixer whether fix is on or not
HcCheckAlwaysFixes ==
    /\ hc.pc = "check"
    /\ \E out \in {"true", "false", "error"} :
         LET li == hc.toDo[hc.idx]
             h == [hc EXCEPT !.trace = Called(hc, "Checker", out)]
         IN  CASE out = "error" ->
                    hc' = [h EXCEPT !.pc = "idle", !.ret = CheckerErr(hc.idx)]
               [] out = "true" ->
                    hc' = HcAdvance([h EXCEPT !.Checks =
                                        Append(@, Item(li.Name, "ok"))])
               [] out = "false" ->
                    hc' = [h EXCEPT !.Checks = Append(@, Item(li.Name, "failed")),
                                    !.pc = "fix"]
    /\ UNCHANGED <<skipConfig, activeLinks, externalRouting, pc, cfg, ret, calls,
                   gor, attached, kernel, detachCalls, delArgs, applied, pre,
                   rs, nc, ops, runVars>>

\* HcCheck taking a Checker's error for a failed check and going on
HcCheckGoesOn ==
    /\ hc.pc = "check"
    /\ \E out \in {"true", "false", "error"} :
         LET li == hc.toDo[hc.idx]
             h == [hc EXCEPT !.trace = Called(hc, "Checker", out)]
         IN  CASE out = "true" ->
                    hc' = HcAdvance([h EXCEPT !.Checks =
                                        Append(@, Item(li.Name, "ok"))])
               [] out \in {"false", "error"} ->
                    IF hc.fix
                    THEN hc' = [h EXCEPT !.Checks = Append(@, Item(li.Name, "failed")),
                                         !.pc = "fix"]
                    ELSE hc' = HcAdvance(
                                 [h EXCEPT !.Checks = Append(@, Item(li.Name, "failed")),
                                           !.Fixes = Append(@, Item(li.Name, "omitted"))])
    /\ UNCHANGED <<skipConfig, activeLinks, externalRouting, pc, cfg, ret, calls,
                   gor, attached, kernel, detachCalls, delArgs, applied, pre,
                   rs, nc, ops, runVars>>

\* lines 56-73 and 88-94: the Checker of the element is called
HcCheck ==
    /\ hc.pc = "check"
    /\ \E out \in {"true", "false", "error"} :
         LET li == hc.toDo[hc.idx]
             h == [hc EXCEPT !.trace = Called(hc, "Checker", out)]
         IN  CASE out = "error" ->
                    hc' = [h EXCEPT !.pc = "idle", !.ret = CheckerErr(hc.idx)]
               [] out = "true" ->
                    hc' = HcAdvance([h EXCEPT !.Checks =
                                        Append(@, Item(li.Name, "ok"))])
               [] out = "false" ->
                    IF hc.fix
                    THEN hc' = [h EXCEPT !.Checks = Append(@, Item(li.Name, "failed")),
                                         !.pc = "fix"]
                    ELSE hc' = HcAdvance(
                                 [h EXCEPT !.Checks = Append(@, Item(li.Name, "failed")),
                                           !.Fixes = Append(@, Item(li.Name, "omitted"))])
    /\ UNCHANGED <<skipConfig, activeLinks, externalRouting, pc, cfg, ret, calls,
                   gor, attached, kernel, detachCalls, delArgs, applied, pre,
                   rs, nc, ops, runVars>>

\* HcFix returning the Fixer's error instead of going on
HcFixStops ==
    /\ hc.pc = "fix"
    /\ \E out \in {"nil", "error"} :
         LET li == hc.toDo[hc.idx]
             h == [hc EXCEPT !.trace = Called(hc, "Fixer", out)]
         IN  IF out = "error"
             THEN hc' = [h EXCEPT !.Fixes = Append(@, Item(li.Name, "failed")),
                                  !.pc = "idle", !.ret = <<"fixer error", hc.idx>>]
             ELSE hc' = HcAdvance([h EXCEPT !.Fixes = Append(@, Item(li.Name, "ok"))])
    /\ UNCHANGED <<skipConfig, activeLinks, externalRouting, pc, cfg, ret, calls,
                   gor, attached, kernel, detachCalls, delArgs, applied, pre,
                   rs, nc, ops, runVars>>

\* lines 77-87 and 94: the Fixer of the element is called
HcFix ==
    /\ hc.pc = "fix"
    /\ \E out \in {"nil", "error"} :
         LET li == hc.toDo[hc.idx]
             h == [hc EXCEPT !.trace = Called(hc, "Fixer", out)]
         IN  hc' = HcAdvance(
                     [h EXCEPT !.Fixes =
                         Append(@, Item(li.Name,
                                        IF out = "nil" THEN "ok" ELSE "failed"))])
    /\ UNCHANGED <<skipConfig, activeLinks, externalRouting, pc, cfg, ret, calls,
                   gor, attached, kernel, detachCalls, delArgs, applied, pre,
                   rs, nc, ops, runVars>>

NextHc ==
    \/ \E name \in CheckNames : Enlist(name)
    \/ \E fix \in BOOLEAN : RunChecks(fix)
    \/ HcCheck
    \/ HcFix
\* a helper: checks are enlisted, RunChecks is run
SpecHc == Init /\ [][NextHc]_vars

(***************************************************************************)
(* retry(attempts, sleep, f), lines 280-296, run on its own: attempts is   *)
(* any count up to MaxAttempts, and f fails until its k-th call succeeds   *)
(* (k = 0: f never succeeds).                                              *)
(***************************************************************************)
\* the error of the n-th call of f
FErr(n) == [error |-> "f", call |-> n]
\* the calls of f made so far
RECURSIVE CallsIn(_)
CallsIn(log) ==
    IF log = <<>> THEN 0
    ELSE (IF Head(log) = "call" THEN 1 ELSE 0) + CallsIn(Tail(log))

RetryRuns ==
    {[pc |-> "call", attempts |-> a, k |-> k, i |-> 0, log |-> <<>>, ret |-> Nil] :
        a \in 0..MaxAttempts, k \in 0..MaxK}

\* lines 282-291 and 295: call f; return nil, go to sleep, or give up
RetryF ==
    /\ rs.pc = "call"
    /\ LET n == CallsIn(rs.log) + 1
           log == Append(rs.log, "call")
       IN  IF n = rs.k
           THEN rs' = [rs EXCEPT !.log = log, !.pc = "done", !.ret = Nil]
           ELSE IF RetryBreak(rs.i, rs.attempts)
           THEN rs' = [rs EXCEPT !.log = log, !.pc = "done",
                                 !.ret = ErrAfterAttempts(rs.attempts, FErr(n))]
           ELSE rs' = [rs EXCEPT !.log = log, !.pc = "sleep"]
    /\ UNCHANGED <<skipConfig, activeLinks, externalRouting, pc, cfg, ret, calls,
                   gor, attached, kernel, detachCalls, delArgs, applied, pre, nc,
                   ops, hc, runVars>>

\* line 293 and the loop increment: time.Sleep(sleep), i++
RetryWait ==
    /\ rs.pc = "sleep"
    /\ rs' = [rs EXCEPT !.log = Append(@, "sleep"), !.i = @ + 1, !.pc = "call"]
    /\ UNCHANGED <<skipConfig, activeLinks, externalRouting, pc, cfg, ret, calls,
                   gor, attached, kernel, detachCalls, delArgs, applied, pre, nc,
                   ops, hc, runVars>>

(***************************************************************************)
(* newNetworkConfigList(t, addr), lines 214-263, run on its own with any   *)
(* kind and address text.                                                  *)
(***************************************************************************)
Kinds == {"net", "ip", "ip6", "NET", ""}
AddrTexts == {subnet} \cup {IPNetString(a) : a \in V4Addrs \cup {PoolAddr, ExtraAddr}}

\* a direct call with kind t and text addr, or the call ConfigureNetwork
\* makes for cfg c
Builds ==
    {[pc |-> "call", t |-> t, addr |-> a, c |-> Nil, out |-> Nil] :
        t \in Kinds, a \in AddrTexts}
    \cup {[pc |-> "cfg", t |-> "", addr |-> <<>>, c |-> c, out |-> Nil] : c \in Configs}

\* lines 214-263: newNetworkConfigList(t, addr)
BuildConfig ==
    /\ nc.pc = "call"
    /\ nc' = [nc EXCEPT !.out = newNetworkConfigList(nc.t, nc.addr), !.pc = "done"]
    /\ UNCHANGED <<skipConfig, activeLinks, externalRouting, pc, cfg, ret, calls,
                   gor, attached, kernel, detachCalls, delArgs, applied, pre, rs,
                   ops, hc, runVars>>

\* lines 103-112: the call of newNetworkConfigList ConfigureNetwork makes
BuildForCfg ==
    /\ nc.pc = "cfg"
    /\ nc' = [nc EXCEPT !.out = NetconfFor(nc.c), !.pc = "done"]
    /\ UNCHANGED <<skipConfig, activeLinks, externalRouting, pc, cfg, ret, calls,
                   gor, attached, kernel, detachCalls, delArgs, applied, pre, rs,
                   ops, hc, runVars>>

InitFn == skipConfig = FALSE /\ InitState /\ rs \in RetryRuns /\ nc \in Builds
NextFn == RetryF \/ RetryWait \/ BuildConfig \/ BuildForCfg
\* retry and newNetworkConfigList on every input within the bounds
SpecFn == InitFn /\ [][NextFn]_vars

(***************************************************************************)
(* ConfigureNetwork, lines 44-204.                                         *)
(***************************************************************************)
\* line 62: link, online := n.activeLinks[cfg.Network]
Online(c) == c.Network \in DOMAIN activeLinks
Link(c) == activeLinks[c.Network]

\* AddressChange with the comparison of line 78 inverted
AddressChangeInverted(link, c) ==
    IF c.IPv6 # Nil
    THEN IF link.IPv6 = Nil THEN Panic
         ELSE IF link.IPv6.ip # c.IPv6.ip THEN "yes" ELSE "no"
    ELSE IF c.IPv4 # Nil /\ link.IPv4.ip = c.IPv4.ip THEN "yes" ELSE "no"

\* AddressChange comparing the whole address, prefix length included
AddressChangeWholeAddr(link, c) ==
    IF c.IPv6 # Nil
    THEN IF link.IPv6 = Nil THEN Panic
         ELSE IF link.IPv6 # c.IPv6 THEN "yes" ELSE "no"
    ELSE IF c.IPv4 # Nil /\ link.IPv4 # c.IPv4 THEN "yes" ELSE "no"

\* lines 77-78: does the cfg ask for another address than the link has?
\* link.IPv6 is always nil (line 183), so reading link.IPv6.IP panics.
AddressChange(link, c) ==
    IF c.IPv6 # Nil
    THEN IF link.IPv6 = Nil THEN Panic
         ELSE IF link.IPv6.ip # c.IPv6.ip THEN "yes" ELSE "no"
    ELSE IF c.IPv4 # Nil /\ link.IPv4.ip # c.IPv4.ip THEN "yes" ELSE "no"

\* the call returns r
Return(r) == pc' = "idle" /\ ret' = r

\* Dispatch without the check of line 45
DispatchAnyNetwork(c) ==
    IF skipConfig THEN NilErr
    ELSE IF ~c.Enable THEN (IF Online(c) THEN "disable" ELSE NilErr)
    ELSE IF ~Online(c) THEN "connect"
    ELSE IF AddressChange(Link(c), c) = Panic THEN Panic
    ELSE IF AddressChange(Link(c), c) = "yes" THEN "change"
    ELSE "apply"

\* Dispatch with the return of line 74 missing: a disable of an offline
\* network falls through to the connect
DispatchDisableFallsThrough(c) ==
    IF c.Network # defaultDataNetwork THEN ErrUnsupportedNetwork
    ELSE IF skipConfig THEN NilErr
    ELSE IF ~c.Enable THEN (IF Online(c) THEN "disable" ELSE "connect")
    ELSE IF ~Online(c) THEN "connect"
    ELSE IF AddressChange(Link(c), c) = Panic THEN Panic
    ELSE IF AddressChange(Link(c), c) = "yes" THEN "change"
    ELSE "apply"

\* Dispatch reconnecting on an address change without the disconnect
DispatchNoDisconnect(c) ==
    IF c.Network # defaultDataNetwork THEN ErrUnsupportedNetwork
    ELSE IF skipConfig THEN NilErr
    ELSE IF ~c.Enable THEN (IF Online(c) THEN "disable" ELSE NilErr)
    ELSE IF ~Online(c) THEN "connect"
    ELSE IF AddressChange(Link(c), c) = Panic THEN Panic
    ELSE IF AddressChange(Link(c), c) = "yes" THEN "connect"
    ELSE "apply"

\* Dispatch returning at once when the link is online with the same address
DispatchSkipsReapply(c) ==
    IF c.Network # defaultDataNetwork THEN ErrUnsupportedNetwork
    ELSE IF skipConfig THEN NilErr
    ELSE IF ~c.Enable THEN (IF Online(c) THEN "disable" ELSE NilErr)
    ELSE IF ~Online(c) THEN "connect"
    ELSE IF AddressChange(Link(c), c) = Panic THEN Panic
    ELSE IF AddressChange(Link(c), c) = "yes" THEN "change"
    ELSE NilErr

\* Dispatch capturing the routes and registering the link again when the
\* link is online with the same address
DispatchRecaptures(c) ==
    IF c.Network # defaultDataNetwork THEN ErrUnsupportedNetwork
    ELSE IF skipConfig THEN NilErr
    ELSE IF ~c.Enable THEN (IF Online(c) THEN "disable" ELSE NilErr)
    ELSE IF ~Online(c) THEN "connect"
    ELSE IF AddressChange(Link(c), c) = Panic THEN Panic
    ELSE IF AddressChange(Link(c), c) = "yes" THEN "change"
    ELSE "register"

\* Dispatch with the switch of line 49 ignored
DispatchSwitchIgnored(c) ==
    IF c.Network # defaultDataNetwork THEN ErrUnsupportedNetwork
    ELSE IF ~c.Enable THEN (IF Online(c) THEN "disable" ELSE NilErr)
    ELSE IF ~Online(c) THEN "connect"
    ELSE IF AddressChange(Link(c), c) = Panic THEN Panic
    ELSE IF AddressChange(Link(c), c) = "yes" THEN "change"
    ELSE "apply"

\* lines 44-78, up to the first external call: the step the call goes to
Dispatch(c) ==
    IF c.Network # defaultDataNetwork THEN ErrUnsupportedNetwork
    ELSE IF skipConfig THEN NilErr
    ELSE IF ~c.Enable THEN (IF Online(c) THEN "disable" ELSE NilErr)
    ELSE IF ~Online(c) THEN "connect"
    ELSE IF AddressChange(Link(c), c) = Panic THEN Panic
    ELSE IF AddressChange(Link(c), c) = "yes" THEN "change"
    ELSE "apply"

Steps == {"disable", "change", "connect", "select", "register", "apply"}

\* ConfigureNetwork(ctx, c) is called: lines 44-78
ConfigureNetwork(c) ==
    /\ pc = "idle"
    /\ calls < MaxCalls
    /\ calls' = calls + 1
    /\ cfg' = c
    /\ detachCalls' = 0
    /\ applied' = <<>>
    /\ pre' = [cfg |-> cfg, ret |-> ret, activeLinks |-> activeLinks,
               kernel |-> kernel]
    /\ IF Dispatch(c) \in Steps
       THEN pc' = Dispatch(c) /\ ret' = Running
       ELSE IF Dispatch(c) = Panic
       THEN pc' = Panic /\ ret' = Panic
       ELSE Return(Dispatch(c))
    /\ UNCHANGED <<fnVars, skipConfig, activeLinks, externalRouting, gor, attached,
                   kernel, delArgs>>

\* DisableDetach calling DelNetworkList again when it failed
DisableDetachRetries ==
    /\ pc = "disable"
    /\ detachCalls' = detachCalls + 1
    /\ delArgs' = [netconf |-> Link(cfg).netconf, rt |-> Link(cfg).rt]
    /\ \E ok \in BOOLEAN :
         IF ok
         THEN /\ attached' = PluginDel(attached, Link(cfg).netconf)
              /\ kernel' = LinkGone(kernel)
              /\ activeLinks' = MapDelete(activeLinks, cfg.Network)
              /\ Return(NilErr)
         ELSE /\ IF detachCalls < 2 THEN pc' = pc /\ ret' = ret
                 ELSE Return(ErrDetachDisable)
              /\ UNCHANGED <<attached, kernel, activeLinks>>
    /\ UNCHANGED <<fnVars, skipConfig, externalRouting, cfg, calls, gor, applied, pre>>

\* lines 65-75: the network is online and is being disabled
DisableDetach ==
    /\ pc = "disable"
    /\ detachCalls' = detachCalls + 1
    /\ delArgs' = [netconf |-> Link(cfg).netconf, rt |-> Link(cfg).rt]
    /\ \E ok \in BOOLEAN :
         IF ok
         THEN /\ attached' = PluginDel(attached, Link(cfg).netconf)
              /\ kernel' = LinkGone(kernel)
              /\ activeLinks' = MapDelete(activeLinks, cfg.Network)
              /\ Return(NilErr)
         ELSE /\ Return(ErrDetachDisable)
              /\ UNCHANGED <<attached, kernel, activeLinks>>
    /\ UNCHANGED <<fnVars, skipConfig, externalRouting, cfg, calls, gor, applied, pre>>

\* ChangeDetach dropping the table entry before it looks at the error
ChangeDetachDropsEntry ==
    /\ pc = "change"
    /\ detachCalls' = detachCalls + 1
    /\ delArgs' = [netconf |-> Link(cfg).netconf, rt |-> Link(cfg).rt]
    /\ activeLinks' = MapDelete(activeLinks, cfg.Network)
    /\ \E ok \in BOOLEAN :
         IF ok
         THEN /\ attached' = PluginDel(attached, Link(cfg).netconf)
              /\ kernel' = LinkGone(kernel)
              /\ pc' = "connect"
              /\ ret' = ret
         ELSE /\ Return(ErrDetachChange)
              /\ UNCHANGED <<attached, kernel>>
    /\ UNCHANGED <<fnVars, skipConfig, externalRouting, cfg, calls, gor, applied, pre>>

\* lines 79-89: the address changes, disconnect before reconnecting
ChangeDetach ==
    /\ pc = "change"
    /\ detachCalls' = detachCalls + 1
    /\ delArgs' = [netconf |-> Link(cfg).netconf, rt |-> Link(cfg).rt]
    /\ \E ok \in BOOLEAN :
         IF ok
         THEN /\ attached' = PluginDel(attached, Link(cfg).netconf)
              /\ kernel' = LinkGone(kernel)
              /\ activeLinks' = MapDelete(activeLinks, cfg.Network)
              /\ pc' = "connect"
              /\ ret' = ret
         ELSE /\ Return(ErrDetachChange)
              /\ UNCHANGED <<attached, kernel, activeLinks>>
    /\ UNCHANGED <<fnVars, skipConfig, externalRouting, cfg, calls, gor, applied, pre>>

\* lines 92-133: not online; build the config and start the attach goroutine
Connect ==
    /\ pc = "connect"
    /\ IF cfg.IPv6 # Nil
       THEN Return(ErrIPv6) /\ gor' = gor
       ELSE IF NetconfFor(cfg).err # Nil
       THEN Return(ErrNetconf) /\ gor' = gor
       ELSE /\ gor' = [gor EXCEPT ![calls] =
                         [NoGoroutine EXCEPT !.pc = "call",
                                             !.netconf = NetconfFor(cfg).netconf]]
            /\ pc' = "select"
            /\ ret' = ret
    /\ UNCHANGED <<fnVars, skipConfig, activeLinks, externalRouting, cfg, calls,
                   attached, kernel, detachCalls, delArgs, applied, pre>>

\* the process is running (it has not died of a panic)
Alive == pc # Panic

\* retry, lines 282-291: one call of f, that is of AddNetworkList
RetryCall(g) ==
    /\ Alive
    /\ gor[g].pc = "call"
    /\ \E ok \in BOOLEAN, addrs \in AssignedAddrs(gor[g].netconf) :
         IF ok
         THEN /\ attached' = PluginAdd(attached, gor[g].netconf, addrs)
              /\ gor' = [gor EXCEPT ![g].err = Nil, ![g].pc = "send"]
         ELSE /\ addrs = <<>>
              /\ attached' = attached
              /\ gor' = [gor EXCEPT
                           ![g].err = IF RetryBreak(gor[g].i, RetryAttempts)
                                      THEN ErrAfterAttempts(RetryAttempts, [error |-> "cni"])
                                      ELSE [error |-> "cni"],
                           ![g].pc = IF RetryBreak(gor[g].i, RetryAttempts)
                                     THEN "send" ELSE "sleep"]
    /\ UNCHANGED <<fnVars, skipConfig, activeLinks, externalRouting, pc, cfg, ret, calls,
                   kernel, detachCalls, delArgs, applied, pre>>

\* retry, line 293 and the loop increment: the sleep is over
RetrySleep(g) ==
    /\ Alive
    /\ gor[g].pc = "sleep"
    /\ gor' = [gor EXCEPT ![g].i = @ + 1, ![g].pc = "call"]
    /\ UNCHANGED <<fnVars, skipConfig, activeLinks, externalRouting, pc, cfg, ret, calls,
                   attached, kernel, detachCalls, delArgs, applied, pre>>

\* the caller cancels the ctx it gave the call that started goroutine g
CancelCtx(g) ==
    /\ Alive
    /\ gor[g].pc \in {"call", "sleep"}
    /\ ~gor[g].ctx
    /\ gor' = [gor EXCEPT ![g].ctx = TRUE]
    /\ UNCHANGED <<fnVars, skipConfig, activeLinks, externalRouting, pc, cfg, ret, calls,
                   attached, kernel, detachCalls, delArgs, applied, pre>>

\* lines 132 and 136-139: the goroutine sends its result on errc (unbuffered)
\* and the select of the same call receives it
SelectReceive ==
    /\ pc = "select"
    /\ gor[calls].pc = "send"
    /\ gor' = [gor EXCEPT ![calls].pc = "done"]
    /\ IF gor[calls].err # Nil
       THEN Return(ErrAttach)
       ELSE pc' = "register" /\ ret' = ret
    /\ UNCHANGED <<fnVars, skipConfig, activeLinks, externalRouting, cfg, calls,
                   attached, kernel, detachCalls, delArgs, applied, pre>>

\* SelectTimeout putting back the table the call started from
SelectTimeoutRestores ==
    /\ pc = "select"
    /\ Return(ErrTimeout)
    /\ activeLinks' = pre.activeLinks
    /\ UNCHANGED <<fnVars, skipConfig, externalRouting, cfg, calls, gor,
                   attached, kernel, detachCalls, delArgs, applied, pre>>

\* lines 140-141: the 30 s timer fires first
SelectTimeout ==
    /\ pc = "select"
    /\ Return(ErrTimeout)
    /\ UNCHANGED <<fnVars, skipConfig, activeLinks, externalRouting, cfg, calls, gor,
                   attached, kernel, detachCalls, delArgs, applied, pre>>

\* the k8sLink of lines 180-186
NewLink(v4addrs, netconf) ==
    [IPv4 |-> v4addrs[1], IPv6 |-> Nil, rt |-> RuntimeConf, netconf |-> netconf]

RegisterOutcomes == {"ok", "linkbyname", "routes", "netlink", "listv4"}

\* lines 144-191: find the interface, capture the routes, register the link
RegisterLink ==
    /\ pc = "register"
    /\ \E out \in RegisterOutcomes :
         /\ externalRouting' =
              IF out = "linkbyname" THEN externalRouting
              ELSE MapSet(externalRouting, dataNetworkIfname, getK8sRoutes(kernel))
         /\ CASE out = "linkbyname" -> Return(ErrLinkByName) /\ activeLinks' = activeLinks
              [] out = "routes" -> Return(ErrRoutes) /\ activeLinks' = activeLinks
              [] out = "netlink" -> Return(ErrNetlink) /\ activeLinks' = activeLinks
              [] out = "listv4" -> Return(ErrListV4) /\ activeLinks' = activeLinks
              [] out = "ok" ->
                   IF Len(ListV4) = 0
                   THEN pc' = Panic /\ ret' = Panic /\ activeLinks' = activeLinks
                   ELSE /\ activeLinks' =
                             MapSet(activeLinks, cfg.Network,
                                    NewLink(ListV4, gor[calls].netconf))
                        /\ pc' = "apply"
                        /\ ret' = ret
    /\ UNCHANGED <<fnVars, skipConfig, cfg, calls, gor, attached, kernel, detachCalls,
                   delArgs, applied, pre>>

ApplyOutcomes == {"ok", "shape", "rules", "policy"}

\* ApplyConfig shaping and adding rules only on a link that has none yet
ApplyConfigOnce ==
    /\ pc = "apply"
    /\ applied' = <<"shape", "rules", "policy">>
    /\ kernel' = handleRoutingPolicy(
                    IF kernel.shape = NoShape
                    THEN AddRules(Shape(kernel, cfg.Default), cfg.Rules)
                    ELSE kernel,
                    externalRouting, cfg.RoutingPolicy)
    /\ Return(NilErr)
    /\ UNCHANGED <<fnVars, skipConfig, activeLinks, externalRouting, cfg, calls, gor,
                   attached, detachCalls, delArgs, pre>>

\* ApplyConfig taking the link out of the table when a step fails
ApplyConfigRollsBack ==
    /\ pc = "apply"
    /\ \E out \in ApplyOutcomes :
         IF out = "ok"
         THEN /\ applied' = <<"shape", "rules", "policy">>
              /\ kernel' = handleRoutingPolicy(
                              AddRules(Shape(kernel, cfg.Default), cfg.Rules),
                              externalRouting, cfg.RoutingPolicy)
              /\ activeLinks' = activeLinks
              /\ Return(NilErr)
         ELSE /\ applied' = <<"shape">>
              /\ kernel' = kernel
              /\ activeLinks' = MapDelete(activeLinks, cfg.Network)
              /\ Return(ErrShape)
    /\ UNCHANGED <<fnVars, skipConfig, externalRouting, cfg, calls, gor,
                   attached, detachCalls, delArgs, pre>>

\* ApplyConfig handing the routing policy no baseline to protect
ApplyConfigNoBaseline ==
    /\ pc = "apply"
    /\ applied' = <<"shape", "rules", "policy">>
    /\ kernel' = handleRoutingPolicy(
                    AddRules(Shape(kernel, cfg.Default), cfg.Rules),
                    EmptyMap, cfg.RoutingPolicy)
    /\ Return(NilErr)
    /\ UNCHANGED <<fnVars, skipConfig, activeLinks, externalRouting, cfg, calls, gor,
                   attached, detachCalls, delArgs, pre>>

\* lines 193-203: shape the link, add the rules, handle the routing policy
ApplyConfig ==
    /\ pc = "apply"
    /\ \E out \in ApplyOutcomes :
         CASE out = "shape" ->
                /\ applied' = <<"shape">>
                /\ kernel' = kernel
                /\ Return(ErrShape)
           [] out = "rules" ->
                /\ applied' = <<"shape", "rules">>
                /\ kernel' = Shape(kernel, cfg.Default)
                /\ Return(ErrRules)
           [] out = "policy" ->
                /\ applied' = <<"shape", "rules", "policy">>
                /\ kernel' = AddRules(Shape(kernel, cfg.Default), cfg.Rules)
                /\ Return(ErrPolicy)
           [] out = "ok" ->
                /\ applied' = <<"shape", "rules", "policy">>
                /\ kernel' = handleRoutingPolicy(
                                AddRules(Shape(kernel, cfg.Default), cfg.Rules),
                                externalRouting, cfg.RoutingPolicy)
                /\ Return(NilErr)
    /\ UNCHANGED <<fnVars, skipConfig, activeLinks, externalRouting, cfg, calls, gor,
                   attached, detachCalls, delArgs, pre>>

\* ListActive(), lines 206-212: the names in the table
ListActive == DOMAIN activeLinks

(***************************************************************************)
(* Close, lines 39-42, and ListActive, lines 206-212, as calls of the      *)
(* sidecar's caller, which calls the K8sNetwork sequentially: between two  *)
(* ConfigureNetwork calls.                                                 *)
(***************************************************************************)
\* netlink.Handle.Delete(): closes the sockets the handle still has; a
\* handle that was deleted has none
NlDelete(o) ==
    [o EXCEPT !.nl = "released",
              !.released = IF o.nl = "open" THEN @ + 1 ELSE @]

\* CloseRun with the active links dropped on the way
CloseRunDropsLinks(o, links) ==
    [ops |-> [NlDelete(o) EXCEPT !.closes = @ + 1, !.closeRet = NilErr],
     activeLinks |-> EmptyMap]

\* lines 40-41: n.nl.Delete(); return nil
CloseRun(o, links) ==
    [ops |-> [NlDelete(o) EXCEPT !.closes = @ + 1, !.closeRet = NilErr],
     activeLinks |-> links]

\* Close() is called
Close ==
    /\ pc = "idle"
    /\ ops.closes < MaxCloses
    /\ ops' = CloseRun(ops, activeLinks).ops
    /\ activeLinks' = CloseRun(ops, activeLinks).activeLinks
    /\ UNCHANGED <<skipConfig, externalRouting, pc, cfg, ret, calls, gor,
                   attached, kernel, detachCalls, delArgs, applied, pre,
                   rs, nc, hc, runVars>>

\* ListActive returning the interfaces that have stored routes
ListActiveRunRoutes(links, routing) ==
    [listed |-> DOMAIN routing, activeLinks |-> links, externalRouting |-> routing]

\* lines 207-211: the names of n.activeLinks, collected into a new slice
ListActiveRun(links, routing) ==
    [listed |-> DOMAIN links, activeLinks |-> links, externalRouting |-> routing]

\* ListActive() is called
ListActiveCall ==
    /\ pc = "idle"
    /\ ops' = [ops EXCEPT !.listed =
                 ListActiveRun(activeLinks, externalRouting).listed]
    /\ activeLinks' = ListActiveRun(activeLinks, externalRouting).activeLinks
    /\ externalRouting' =
          ListActiveRun(activeLinks, externalRouting).externalRouting
    /\ UNCHANGED <<skipConfig, pc, cfg, ret, calls, gor, attached, kernel,
                   detachCalls, delArgs, applied, pre, rs, nc, hc, runVars>>

(***************************************************************************)
(* Specifications.                                                         *)
(***************************************************************************)
Next ==
    \/ \E c \in Configs : ConfigureNetwork(c)
    \/ DisableDetach
    \/ ChangeDetach
    \/ Connect
    \/ \E g \in Goroutines : RetryCall(g)
    \/ \E g \in Goroutines : RetrySleep(g)
    \/ SelectReceive
    \/ SelectTimeout
    \/ RegisterLink
    \/ ApplyConfig

\* the configuration path of ConfigureNetwork (the switch of line 49 off)
Spec == Init /\ [][Next]_vars

\* the same, with the caller cancelling the ctx of a call
NextCtx == Next \/ \E g \in Goroutines : CancelCtx(g)
SpecCtx == Init /\ [][NextCtx]_vars

\* the program as written: every call returns at line 47 or line 52
NextAsWritten ==
    \/ \E c \in Configs : ConfigureNetwork(c)
    \/ ListActiveCall
SpecAsWritten == InitAsWritten /\ [][NextAsWritten]_vars

\* the cfgs of the calls made next to Close and ListActive
OpsConfigs ==
    {c \in Configs :
        c.Default = "p1" /\ c.IPv6 = Nil /\ (c.IPv4 = Nil \/ c.IPv4.bits = 24)}

NextOps ==
    \/ \E c \in OpsConfigs : ConfigureNetwork(c)
    \/ DisableDetach
    \/ ChangeDetach
    \/ Connect
    \/ \E g \in Goroutines : RetryCall(g)
    \/ \E g \in Goroutines : RetrySleep(g)
    \/ SelectReceive
    \/ SelectTimeout
    \/ RegisterLink
    \/ ApplyConfig
    \/ Close
    \/ ListActiveCall
\* ConfigureNetwork, Close and ListActive called one after another
SpecOps == Init /\ [][NextOps]_vars

(***************************************************************************)
(* ClusterK8sRunner.Run (pkg/runner/cluster_k8s.go): one goroutine per     *)
(* instance creates a pod and polls its status. Time is a clock that ticks *)
(* between the steps; the wait limit of line 180 is WaitLimit ticks.       *)
(***************************************************************************)
\* the instances of a run, the ticks of the clock, and the five minutes of
\* line 180 in ticks
MaxPods == 2
MaxTime == 4
WaitLimit == 2

\* the other variables, which Run and ForEachCase leave alone
sidecarVars ==
    <<skipConfig, activeLinks, externalRouting, pc, cfg, ret, calls, gor,
      attached, kernel, detachCalls, delArgs, applied, pre, rs, nc, ops, hc>>

\* the test plan of the runs has one test case
TestCases == 1
\* v1.PodPhase, as Get reports it
PodPhases == {"Pending", "Running", "Succeeded", "Failed", "Unknown"}
\* a goroutine of line 131 that has not run yet
NewPod == [pc |-> "create", start |-> 0]
\* what Run returns
K8Running == <<"running">>
K8Out == <<"out", "nil">>
ErrSeq == <<"nil", "invalid test case seq">>
ErrK8sConfig == <<"nil", "could not start k8s client from config">>
ErrClientset == <<"nil", "could not create clientset">>

\* lines 74-131: Run is called; it returns an error or starts the goroutines
Run(seq, instances, client) ==
    /\ k8.pc = "idle"
    /\ k8.runs < MaxRuns
    /\ IF seq < 0 \/ seq >= TestCases
       THEN k8' = [k8 EXCEPT !.runs = @ + 1, !.ret = ErrSeq]
       ELSE IF client = "no config"
       THEN k8' = [k8 EXCEPT !.runs = @ + 1, !.ret = ErrK8sConfig]
       ELSE IF client = "no clientset"
       THEN k8' = [k8 EXCEPT !.runs = @ + 1, !.ret = ErrClientset]
       ELSE k8' = [k8 EXCEPT !.runs = @ + 1, !.ret = K8Running, !.pc = "wait",
                             !.n = instances,
                             !.pods = [i \in 1..instances |-> NewPod]]
    /\ UNCHANGED <<sidecarVars, fc>>

\* lines 131-169: the goroutine creates its pod, and ends if that fails
PodCreate(i) ==
    /\ k8.pc = "wait"
    /\ k8.pods[i].pc = "create"
    /\ \E out \in {"created", "error"} :
         IF out = "error"
         THEN k8' = [k8 EXCEPT !.pods[i].pc = "done"]
         ELSE k8' = [k8 EXCEPT !.pods[i].pc = "get", !.pods[i].start = k8.now]
    /\ UNCHANGED <<sidecarVars, fc>>

\* lines 170-182: one pass of the wait loop, up to the sleep it ends with
PodGet(i) ==
    /\ k8.pc = "wait"
    /\ k8.pods[i].pc = "get"
    /\ \E out \in PodPhases \cup {"error"} :
         IF out = "error"
         THEN k8' = [k8 EXCEPT !.pods[i].pc = "sleep"]
         ELSE IF out \in {"Succeeded", "Failed"}
         THEN k8' = [k8 EXCEPT !.pods[i].pc = "done"]
         ELSE IF k8.now - k8.pods[i].start > WaitLimit
         THEN k8' = [k8 EXCEPT !.pods[i].pc = "done"]
         ELSE k8' = [k8 EXCEPT !.pods[i].pc = "sleep"]
    /\ UNCHANGED <<sidecarVars, fc>>

\* lines 174-175 and 183: the sleep is over, the loop goes round
PodSleep(i) ==
    /\ k8.pc = "wait"
    /\ k8.pods[i].pc = "sleep"
    /\ k8' = [k8 EXCEPT !.pods[i].pc = "get"]
    /\ UNCHANGED <<sidecarVars, fc>>

\* time passes
Tick ==
    /\ k8.pc = "wait"
    /\ k8.now < MaxTime
    /\ k8' = [k8 EXCEPT !.now = @ + 1]
    /\ UNCHANGED <<sidecarVars, fc>>

\* lines 188-207: every goroutine has called wg.Done; Run returns
RunReturn ==
    /\ k8.pc = "wait"
    /\ \A i \in 1..k8.n : k8.pods[i].pc = "done"
    /\ k8' = [k8 EXCEPT !.pc = "idle", !.ret = K8Out]
    /\ UNCHANGED <<sidecarVars, fc>>

NextK8 ==
    \/ \E seq \in -1..TestCases, instances \in 0..MaxPods,
          client \in {"ok", "no config", "no clientset"} :
            Run(seq, instances, client)
    \/ \E i \in 1..k8.n : PodCreate(i)
    \/ \E i \in 1..k8.n : PodGet(i)
    \/ \E i \in 1..k8.n : PodSleep(i)
    \/ Tick
    \/ RunReturn
\* runs of the cluster:k8s runner
SpecK8 == Init /\ [][NextK8]_vars

(***************************************************************************)
(* ForEachCase and getAddTestsConfig (part_005): the test cases of a plan  *)
(* are read from its parameters and fn is run on a file or a directory     *)
(* made for each.                                                          *)
(***************************************************************************)
\* the file sizes and the directory configs a parameter may list
MaxSizes == 2
MaxDirs == 1

\* the size texts of the parameters; "x" is no size
SizeTexts == {"1kB", "1MB", "x"}
ErrSize == "unhandled size name"
\* humanize.ParseBytes, on the texts the model uses: <<n, err>>
ParseBytes(text) ==
    CASE text = "1kB" -> <<1000, "nil">>
      [] text = "1KiB" -> <<1024, "nil">>
      [] text = "1MB" -> <<1000000, "nil">>
      [] text = "10MB" -> <<10000000, "nil">>
      [] OTHER -> <<0, ErrSize>>

\* line 90: the default of the file-sizes parameter
defaultSizes == <<"1MB", "10MB">>
\* lines 76-85
defaultDirConfigs == <<[Depth |-> 10, Size |-> "1MB"], [Depth |-> 15, Size |-> "1MB"]>>
DirDepths == {0, 10}
RawDirConfigs == [Depth : DirDepths, Size : SizeTexts]

\* the sequences over S of length up to n
SeqUpTo(S, n) == UNION {[1..k -> S] : k \in 0..n}
\* the parameters of a run: file-sizes and dir-cfg, each given or absent
Absent == [given |-> FALSE, list |-> <<>>]
Given(S) == {Absent} \cup {[given |-> TRUE, list |-> l] : l \in S}
TestParams ==
    [sizes : Given(SeqUpTo(SizeTexts, MaxSizes)),
     dir : Given(SeqUpTo(RawDirConfigs, MaxDirs))]

\* lines 92-101: the loop over sizes, from its j-th element on
RECURSIVE SizeTests(_, _, _)
SizeTests(sizes, j, tests) ==
    IF j > Len(sizes) THEN [tests |-> tests, err |-> "nil"]
    ELSE LET p == ParseBytes(sizes[j])
         IN  IF p[2] # "nil" THEN [tests |-> tests, err |-> p[2]]
             ELSE SizeTests(sizes, j + 1, Append(tests, [Size |-> p[1], Depth |-> 0]))

\* lines 110-120: the loop over dirConfigs, from its j-th element on
RECURSIVE DirTests(_, _, _)
DirTests(dirs, j, tests) ==
    IF j > Len(dirs) THEN [tests |-> tests, err |-> "nil"]
    ELSE LET p == ParseBytes(dirs[j].Size)
         IN  IF p[2] # "nil" THEN [tests |-> tests, err |-> p[2]]
             ELSE DirTests(dirs, j + 1,
                           Append(tests, [Size |-> p[1], Depth |-> dirs[j].Depth]))

\* lines 87-123: the tests read so far and the error, if any
getAddTestsConfig(params) ==
    LET sizes == IF params.sizes.given THEN params.sizes.list ELSE defaultSizes
        dirs == IF params.dir.given THEN params.dir.list ELSE defaultDirConfigs
        a == SizeTests(sizes, 1, <<>>)
    IN  IF a.err # "nil" THEN a ELSE DirTests(dirs, 1, a.tests)

\* line 25: the error ForEachCase has for parameters that do not parse
ErrParse(err) == <<"could not parse test parameters", err>>
\* line 24: `err != err`, which compares the error with itself
FcParamsCheck(err) == err # err

\* the loop of line 28 moves on from case i: the next case, or line 73
FcAdvance(f) ==
    IF f.i < Len(f.tests)
    THEN [f EXCEPT !.i = @ + 1, !.pc = "case"]
    ELSE [f EXCEPT !.pc = "idle", !.ret = <<"nil">>]

\* lines 22-28: ForEachCase is called
ForEachCase(params) ==
    /\ fc.pc = "idle"
    /\ fc.runs < MaxRuns
    /\ LET a == getAddTestsConfig(params)
           f == [fc EXCEPT !.runs = @ + 1, !.sizes = params.sizes,
                           !.dir = params.dir, !.tests = a.tests, !.err = a.err,
                           !.i = 0, !.fnCalls = <<>>, !.ret = <<"running">>]
       IN  IF FcParamsCheck(a.err)
           THEN fc' = [f EXCEPT !.pc = "idle", !.ret = ErrParse(a.err)]
           ELSE fc' = FcAdvance(f)
    /\ UNCHANGED <<sidecarVars, k8>>

\* what can happen to a case: the directory or the file cannot be made, the
\* unixfs node cannot be had, fn fails, or all goes well
CaseOutcomes == {"no directory", "no file", "no node", "fn error", "ok"}
\* lines 29-70: one case
FcCase ==
    /\ fc.pc = "case"
    /\ \E out \in CaseOutcomes :
         LET c == fc.tests[fc.i]
             called == [fc EXCEPT !.fnCalls =
                           Append(@, [Size |-> c.Size, isDir |-> c.Depth # 0])]
         IN  CASE out \in {"no directory", "no file"} ->
                    fc' = [fc EXCEPT !.pc = "idle", !.ret = <<out>>]
               [] out = "no node" ->
                    fc' = [fc EXCEPT !.pc = "idle",
                                     !.ret = <<"failed to get Unixfs file from path", out>>]
               [] out = "fn error" ->
                    fc' = [called EXCEPT !.pc = "idle", !.ret = <<out>>]
               [] out = "ok" ->
                    fc' = FcAdvance(called)
    /\ UNCHANGED <<sidecarVars, k8>>

NextCases ==
    \/ \E params \in TestParams : ForEachCase(params)
    \/ FcCase
\* calls of ForEachCase
SpecCases == Init /\ [][NextCases]_vars

(***************************************************************************)
(* Properties.                                                             *)
(***************************************************************************)
\* a call has returned (or none was made yet); a call has returned
Idle == pc = "idle"
Returned == pc = "idle" /\ calls > 0
\* the step is the entry of a ConfigureNetwork call
Entered == pc = "idle" /\ calls' = calls + 1
\* the call in flight (or the last call) was for the managed network
Managed == cfg.Network = defaultDataNetwork
\* the goroutine of the call in flight (or of the last call)
Mine == gor[calls]
\* the table had an entry for the managed network when the call started
WasOnline == defaultDataNetwork \in DOMAIN pre.activeLinks
IsOnline == defaultDataNetwork \in DOMAIN activeLinks

\* C1: a call for a network other than the managed one returns the
\* unsupported-network error in its first step, with the table, the plugin
\* state, the goroutines and the kernel state as they were and no
\* DelNetworkList call.
C1_UnsupportedNetwork ==
    [][(Entered /\ cfg'.Network # defaultDataNetwork) =>
          /\ pc' = "idle"
          /\ ret' = ErrUnsupportedNetwork
          /\ activeLinks' = activeLinks
          /\ externalRouting' = externalRouting
          /\ attached' = attached
          /\ gor' = gor
          /\ kernel' = kernel
          /\ detachCalls' = 0
          /\ applied' = <<>>]_vars

\* C1 witness: the error was returned with a link in the table
C1_Witness ==
    Returned /\ ~Managed /\ ret = ErrUnsupportedNetwork /\ IsOnline

\* C2 (as claimed): a call on the managed network whose cfg has a non-nil
\* IPv6 address returns the ipv6 error, makes no DelNetworkList call, starts
\* no attach, applies nothing, and leaves the table as it was.
C2_IPv6FailFast ==
    (cfg # Nil /\ Managed /\ cfg.IPv6 # Nil) =>
        /\ pc # Panic
        /\ detachCalls = 0
        /\ applied = <<>>
        /\ activeLinks = pre.activeLinks
        /\ Idle => ret = ErrIPv6

C4_NoDualAddress ==
    [][/\ (IsOnline /\ defaultDataNetwork \in DOMAIN activeLinks') =>
             activeLinks'[defaultDataNetwork].IPv4 = activeLinks[defaultDataNetwork].IPv4
       /\ (pc = "change" /\ pc' = "connect") =>
             /\ ~(defaultDataNetwork \in DOMAIN activeLinks')
             /\ detachCalls' = 1
             /\ delArgs'.netconf = activeLinks[defaultDataNetwork].netconf
             /\ attached' = PluginDel(attached, activeLinks[defaultDataNetwork].netconf)
       /\ (pc = "connect" /\ pc' = "select") => ~IsOnline
       /\ (pc = "idle" /\ pc' = "connect") => ~IsOnline
       /\ \A g \in Goroutines :
             (gor[g].pc = "none" /\ gor'[g].pc # "none") =>
                 pc = "connect" /\ g = calls /\ ~IsOnline]_vars

\* C4 witness: an address-change call has detached the old address and
\* attached and recorded the requested one
C4_Witness ==
    /\ Returned /\ ret = NilErr /\ cfg.Enable /\ detachCalls = 1
    /\ WasOnline /\ IsOnline
    /\ pre.activeLinks[defaultDataNetwork].IPv4.ip # cfg.IPv4.ip
    /\ activeLinks[defaultDataNetwork].IPv4 = cfg.IPv4

\* the link the table held when the call started
PreLink == pre.activeLinks[defaultDataNetwork]

\* C5: a call with the enabled cfg of the successful call before it, on the
\* link that call left online and with no address change, leaves the table
\* and the shaping, rules and routing policy as the first call left them,
\* makes no DelNetworkList call and starts no attach.
C5_Idempotent ==
    (/\ calls > 1 /\ Managed /\ cfg.Enable
     /\ pre.cfg = cfg /\ pre.ret = NilErr /\ WasOnline
     /\ (cfg.IPv4 = Nil \/ cfg.IPv4.ip = PreLink.IPv4.ip)) =>
        /\ activeLinks = pre.activeLinks
        /\ kernel = pre.kernel
        /\ detachCalls = 0
        /\ Mine.pc = "none"
        /\ pc \in {"apply", "idle"}
        /\ Idle => ret \in {NilErr, ErrShape, ErrRules, ErrPolicy}

\* C5 witness: the second of two equal enabled calls has returned nil
C5_Witness ==
    /\ Returned /\ calls > 1 /\ Managed /\ cfg.Enable /\ cfg.IPv4 # Nil
    /\ pre.cfg = cfg /\ pre.ret = NilErr /\ WasOnline /\ ret = NilErr
    /\ applied = <<"shape", "rules", "policy">>

\* C6: a disable of the managed network with no link in the table returns
\* nil in its first step: no DelNetworkList call, no attach, nothing applied,
\* the kernel state as it was and the table still empty.
C6_DisableOffline ==
    (cfg # Nil /\ Managed /\ ~cfg.Enable /\ ~WasOnline) =>
        /\ Idle
        /\ ret = NilErr
        /\ detachCalls = 0
        /\ Mine.pc = "none"
        /\ applied = <<>>
        /\ kernel = pre.kernel
        /\ ListActive = {}

\* C6 witness: a second disable in a row of the offline network
C6_Witness ==
    /\ Returned /\ calls > 1 /\ Managed /\ ~cfg.Enable /\ ~WasOnline
    /\ pre.cfg = cfg /\ pre.ret = NilErr /\ ret = NilErr

\* C7: a disable of the managed network that is online makes exactly one
\* DelNetworkList call, with the netconf and rt of the link in the table;
\* it returns nil with the link out of the table if the call succeeded, and
\* the detach error with the table as it was otherwise; no attach is started.
C7_DisableOnline ==
    (cfg # Nil /\ Managed /\ ~cfg.Enable /\ WasOnline) =>
        /\ pc \in {"disable", "idle"}
        /\ pc = "disable" => detachCalls = 0 /\ activeLinks = pre.activeLinks
        /\ Mine.pc = "none"
        /\ applied = <<>>
        /\ Idle =>
             /\ detachCalls = 1
             /\ delArgs = [netconf |-> PreLink.netconf, rt |-> PreLink.rt]
             /\ ret \in {NilErr, ErrDetachDisable}
             /\ ret = NilErr => defaultDataNetwork \notin ListActive
             /\ ret = ErrDetachDisable => activeLinks = pre.activeLinks

\* C7 witness: the disable has detached the link that was online
C7_Witness ==
    /\ Returned /\ Managed /\ ~cfg.Enable /\ WasOnline /\ ret = NilErr
    /\ detachCalls = 1 /\ ListActive = {}

\* the call is an enable with a requested IPv4 address and no prior link,
\* and its first AddNetworkList call has succeeded
FirstAttemptAttached ==
    /\ Returned /\ Managed /\ cfg.Enable /\ cfg.IPv4 # Nil /\ cfg.IPv6 = Nil
    /\ ~WasOnline
    /\ Mine.pc \in {"send", "done"} /\ Mine.i = 0 /\ Mine.err = Nil

\* the link of the requested address is in the table and nothing was detached
LinkRecorded ==
    /\ detachCalls = 0
    /\ ListActive = {defaultDataNetwork}
    /\ activeLinks[defaultDataNetwork].IPv4 = cfg.IPv4
    /\ activeLinks[defaultDataNetwork].netconf = Mine.netconf

PluginAsAsked ==
    attached = <<[netconf |-> Mine.netconf,
                  addrs |-> <<RequestedAddr(Mine.netconf)>>]>>

C9_AttachBudget ==
    [][/\ \A g \in Goroutines :
             /\ gor'[g].i <= RetryAttempts - 1
             /\ (gor'[g].pc \in {"send", "done"} /\ gor'[g].err # Nil) =>
                    gor'[g].i = RetryAttempts - 1
       /\ (pc = "select" /\ pc' # "select") =>
             /\ activeLinks' = activeLinks
             /\ kernel' = kernel
             /\ applied' = <<>>
             /\ IF Mine'.pc = "done" /\ Mine.pc = "send"
                THEN IF Mine.err = Nil
                     THEN pc' = "register"
                     ELSE pc' = "idle" /\ ret' = ErrAttach
                ELSE pc' = "idle" /\ ret' = ErrTimeout /\ Mine' = Mine]_vars

\* C9 witness: the call timed out with attempts left
C9_Witness ==
    /\ Returned /\ ret = ErrTimeout /\ Mine.pc \in {"call", "sleep"}
    /\ Mine.i < RetryAttempts - 1 /\ ~IsOnline /\ applied = <<>>

SucceedsInTime == rs.k >= 1 /\ rs.k <= rs.attempts
\* min(k, attempts), k = 0 standing for an f that never succeeds
CallsDue == IF SucceedsInTime THEN rs.k ELSE rs.attempts

C11_Retry ==
    (rs.pc # "idle" /\ rs.attempts >= 1) =>
        /\ \A j \in 1..Len(rs.log) :
              rs.log[j] = (IF j % 2 = 1 THEN "call" ELSE "sleep")
        /\ rs.pc = "done" =>
              /\ CallsIn(rs.log) = CallsDue
              /\ rs.log[Len(rs.log)] = "call"
              /\ Len(rs.log) = 2 * CallsDue - 1
              /\ (rs.ret = Nil) <=> SucceedsInTime
              /\ ~SucceedsInTime =>
                    rs.ret = [error |-> "after attempts", attempts |-> rs.attempts,
                              last |-> FErr(rs.attempts)]

\* three attempts, all failed: five log entries and the error of the third
C11_Witness ==
    /\ rs.pc = "done"
    /\ rs.attempts = 3
    /\ rs.k = 0
    /\ rs.log = <<"call", "sleep", "call", "sleep", "call">>
    /\ rs.ret.last = FErr(3)

\* C12: a call makes at most one DelNetworkList call, in the step that
\* ends its disable or its address-change stage and nowhere else; when that
\* call fails (the entry stays in the table) the step returns the detach
\* error of its flow with the plugin state as it was, and the call is over:
\* no second attempt.
C12_SingleDetach ==
    [][/\ detachCalls' <= 1
       /\ (detachCalls' # detachCalls /\ ~Entered) => pc \in {"disable", "change"}
       /\ (pc \in {"disable", "change"} /\ pc' # pc) =>
             /\ detachCalls = 0 /\ detachCalls' = 1
             /\ activeLinks' = activeLinks =>
                   /\ pc' = "idle"
                   /\ ret' = (IF pc = "disable" THEN ErrDetachDisable
                              ELSE ErrDetachChange)
                   /\ attached' = attached
                   /\ gor' = gor]_vars

\* C12 witness: the detach of an address change failed, once, and the call
\* returned its error with the old link still in the table
C12_Witness ==
    /\ Returned /\ Managed /\ cfg.Enable /\ ret = ErrDetachChange
    /\ detachCalls = 1 /\ activeLinks = pre.activeLinks /\ Mine.pc = "none"

\* C13: newNetworkConfigList builds a config for exactly two kinds: "net"
\* gives IPAM by subnet over the text passed, "ip" gives IPAM with the one
\* fixed IPv4 address passed; any other kind gives an error and no config.
\* ConfigureNetwork asks for "net" with the sidecar's subnet exactly when
\* cfg.IPv4 is nil, and for "ip" with the text of cfg.IPv4 otherwise.
C13_ConfigKinds ==
    nc.pc = "done" =>
        /\ (nc.c = Nil /\ nc.t = "net") =>
              nc.out = [netconf |-> [ipam |-> "subnet", value |-> nc.addr],
                        err |-> Nil]
        /\ (nc.c = Nil /\ nc.t = "ip") =>
              nc.out = [netconf |-> [ipam |-> "ips", value |-> nc.addr],
                        err |-> Nil]
        /\ (nc.c = Nil /\ nc.t \notin {"net", "ip"}) =>
              nc.out.netconf = Nil /\ nc.out.err # Nil
        /\ (nc.c # Nil /\ nc.c.IPv4 = Nil) =>
              nc.out = [netconf |-> [ipam |-> "subnet", value |-> subnet],
                        err |-> Nil]
        /\ (nc.c # Nil /\ nc.c.IPv4 # Nil) =>
              nc.out = [netconf |->
                           [ipam |-> "ips",
                            value |-> <<nc.c.IPv4.ip, "/", nc.c.IPv4.bits>>],
                        err |-> Nil]

\* C13 witness: a kind that differs from "net" only in case was refused
C13_Witness ==
    nc.pc = "done" /\ nc.c = Nil /\ nc.t = "NET" /\ nc.out.netconf = Nil

\* the steps of lines 193-201 a returned call has run: shaping, then rules,
\* then routing policy, each only if the one before succeeded, and none on a
\* call that ends with the network offline
AppliedInOrder ==
    /\ applied \in {<<>>, <<"shape">>, <<"shape", "rules">>,
                    <<"shape", "rules", "policy">>}
    /\ applied = <<"shape">> <=> ret = ErrShape
    /\ applied = <<"shape", "rules">> <=> ret = ErrRules
    /\ ret = ErrPolicy => applied = <<"shape", "rules", "policy">>
    /\ applied = <<"shape", "rules", "policy">> =>
          /\ ret \in {ErrPolicy, NilErr}
          /\ kernel.shape = cfg.Default
          /\ kernel.rules = cfg.Rules
    /\ ~IsOnline => applied = <<>>

C16_NoRollback ==
    [][(pc = "apply" /\ pc' # "apply") =>
          /\ pc' = "idle"
          /\ ret' \in {NilErr, ErrShape, ErrRules, ErrPolicy}
          /\ activeLinks' = activeLinks
          /\ defaultDataNetwork \in DOMAIN activeLinks'
          /\ attached' = attached
          /\ detachCalls' = detachCalls
          /\ delArgs' = delArgs
          /\ gor' = gor]_vars

\* C16 witness: a fresh attach was followed by a failed shaping; the link is
\* in the table and the attachment is still there
C16_Witness ==
    /\ Returned /\ Managed /\ ~WasOnline /\ ret = ErrShape
    /\ Mine.pc = "done" /\ Mine.err = Nil
    /\ ListActive = {defaultDataNetwork}
    /\ detachCalls = 0 /\ Len(attached) = 1

C18_SnapshotOnce ==
    [][/\ (IsOnline /\ defaultDataNetwork \in DOMAIN activeLinks') =>
             externalRouting' = externalRouting
       /\ (~IsOnline /\ defaultDataNetwork \in DOMAIN activeLinks') =>
             /\ pc = "register"
             /\ externalRouting'[dataNetworkIfname] = getK8sRoutes(kernel)]_vars

\* C18 witness: a call that found the link online under a routing policy
\* other than its own has applied its policy and returned nil, and the
\* stored routes are still those captured before any policy was applied
C18_Witness ==
    /\ Returned /\ calls > 1 /\ Managed /\ cfg.Enable /\ ret = NilErr
    /\ WasOnline /\ detachCalls = 0 /\ Mine.pc = "none"
    /\ pre.kernel.policy # Nil
    /\ pre.kernel.policy.policy # cfg.RoutingPolicy
    /\ externalRouting[dataNetworkIfname].under = "no policy"

C21_CloseIdempotent ==
    [][ops'.closes # ops.closes =>
          /\ ops'.closeRet = NilErr
          /\ ops'.nl = "released"
          /\ ops'.released = 1
          /\ ops.closes > 0 => ops'.released = ops.released
          /\ activeLinks' = activeLinks
          /\ externalRouting' = externalRouting
          /\ attached' = attached]_vars

\* C21 witness: Close was called three times with a link in the table
C21_Witness ==
    /\ ops.closes = 3 /\ ops.closeRet = NilErr /\ ops.released = 1
    /\ IsOnline

\* C22: a ListActive call returns exactly the names that have an entry in
\* the table, and changes neither the table nor the stored routes, the
\* plugin's attachments, the kernel state or the goroutines.
C22_ListActivePure ==
    [][ops'.listed # ops.listed =>
          /\ ops'.listed = DOMAIN activeLinks
          /\ activeLinks' = activeLinks
          /\ externalRouting' = externalRouting
          /\ attached' = attached
          /\ kernel' = kernel
          /\ gor' = gor
          /\ detachCalls' = detachCalls]_vars

\* C22 witness: ListActive returned the managed network while routes were
\* stored for its interface
C22_Witness ==
    /\ ops.listed = {defaultDataNetwork}
    /\ IsOnline
    /\ dataNetworkIfname \in DOMAIN externalRouting

\* the routes the policy in force keeps reachable
KeptRoutes == kernel.policy.keep

CheckerCalls(j) == Cardinality({i \in 1..j : hc.trace[i].call = "Checker"})

\* C24: in a RunChecks run the k-th Checker called is the one of the k-th
\* enlisted check; a Fixer is called only with fix on, right after the
\* Checker of its own check returned false; and with fix on, what follows a
\* Checker that returned false is the Fixer of that check, before any other
\* Checker.
C24_InOrder ==
    /\ \A j \in 1..Len(hc.trace) :
          LET e == hc.trace[j] IN
          /\ e.name = hc.toDo[e.at].Name
          /\ e.call = "Checker" => e.at = CheckerCalls(j)
          /\ e.call = "Fixer" =>
                /\ hc.fix
                /\ j > 1
                /\ hc.trace[j - 1].call = "Checker"
                /\ hc.trace[j - 1].at = e.at
                /\ hc.trace[j - 1].out = "false"
          /\ (e.call = "Checker" /\ e.out = "false" /\ hc.fix) =>
                IF j < Len(hc.trace)
                THEN hc.trace[j + 1].call = "Fixer" /\ hc.trace[j + 1].at = e.at
                ELSE hc.pc = "fix" /\ hc.idx = e.at
    /\ hc.pc = "check" => hc.idx = CheckerCalls(Len(hc.trace)) + 1

\* C24 witness: of the checks a, b, a the second failed and was fixed before
\* the third was checked
C24_Witness ==
    /\ hc.pc = "idle" /\ hc.ret = HcNil /\ hc.fix
    /\ Len(hc.toDo) = 3
    /\ hc.toDo[1].Name = "a" /\ hc.toDo[2].Name = "b" /\ hc.toDo[3].Name = "a"
    /\ Len(hc.trace) = 4
    /\ hc.trace[2].out = "false" /\ hc.trace[2].name = "b"
    /\ hc.trace[3].call = "Fixer" /\ hc.trace[3].name = "b"
    /\ hc.trace[4].call = "Checker" /\ hc.trace[4].at = 3

C28_DetachFailureKeepsLink ==
    (Returned /\ ret \in {ErrDetachDisable, ErrDetachChange}) =>
        /\ Managed /\ WasOnline
        /\ activeLinks = pre.activeLinks
        /\ IsOnline
        /\ detachCalls = 1
        /\ Mine.pc = "none"
        /\ applied = <<>>
        /\ kernel = pre.kernel
        /\ ret = ErrDetachDisable <=> ~cfg.Enable
        /\ ret = ErrDetachChange =>
              activeLinks[defaultDataNetwork].IPv4.ip # cfg.IPv4.ip

\* C28 witness: the detach of a disable failed on the link the call before
\* had attached and shaped
C28_Witness ==
    /\ Returned /\ ret = ErrDetachDisable /\ pre.ret = NilErr
    /\ IsOnline /\ kernel.shape # NoShape /\ Len(attached) = 1

\* C29: an address-change call whose detach succeeded and whose attach then
\* failed or timed out has returned that error with no entry for the network
\* in the table; the one attach it started was for the new address, not for
\* the one the link had.
C29_ChangeAttachFails ==
    (/\ Returned /\ Managed /\ cfg.Enable /\ WasOnline /\ detachCalls = 1
     /\ ret \in {ErrAttach, ErrTimeout}) =>
        /\ ~IsOnline
        /\ defaultDataNetwork \notin ListActive
        /\ Mine.pc # "none"
        /\ RequestedAddr(Mine.netconf) = cfg.IPv4
        /\ cfg.IPv4.ip # PreLink.IPv4.ip

\* C29 witness: the old address was detached, the attach of the new one hit
\* the timer, and the network is offline
C29_Witness ==
    /\ Returned /\ Managed /\ cfg.Enable /\ WasOnline /\ detachCalls = 1
    /\ ret = ErrTimeout /\ ListActive = {}
    /\ cfg.IPv4.ip # PreLink.IPv4.ip

\* C30: in the program as written (the switch of line 49 on) every call on
\* the managed network has returned nil in its first step; no call starts
\* an attach or makes a detach call, the plugin holds no attachment, the
\* table stays empty and every ListActive call returns the empty set.
C30_AsWritten ==
    /\ skipConfig
    /\ pc = "idle"
    /\ (calls > 0 /\ Managed) => ret = NilErr
    /\ \A g \in Goroutines : gor[g].pc = "none"
    /\ detachCalls = 0
    /\ attached = <<>>
    /\ activeLinks = EmptyMap
    /\ ListActive = {}
    /\ ops.listed \in {{"not called"}, {}}

\* C30 witness: two enabled calls on the managed network, with a requested
\* address, have returned nil and ListActive has returned the empty set
C30_Witness ==
    /\ calls = 2 /\ Managed /\ cfg.Enable /\ cfg.IPv4 # Nil /\ ret = NilErr
    /\ pre.cfg.Enable /\ pre.cfg.Network = defaultDataNetwork /\ pre.ret = NilErr
    /\ ops.listed = {}

\* C31: the address-change decision looks at the IP only. An enabled call on
\* the managed network with a link online, whose cfg asks for no IPv4
\* address or for the IP the link has (whatever the prefix length), makes no
\* DelNetworkList call, starts no attach and leaves the table, and with it
\* the link's recorded address, as it was.
C31_IPOnly ==
    (/\ calls > 0 /\ Managed /\ cfg.Enable /\ WasOnline
     /\ (cfg.IPv4 = Nil \/ cfg.IPv4.ip = PreLink.IPv4.ip)) =>
        /\ detachCalls = 0
        /\ Mine.pc = "none"
        /\ activeLinks = pre.activeLinks

\* C31 witness: a call asking for the link's IP under another prefix length
\* has returned nil, and so has one asking for no address
C31_Witness ==
    /\ Returned /\ Managed /\ cfg.Enable /\ WasOnline /\ ret = NilErr
    /\ cfg.IPv4 # Nil /\ cfg.IPv4.ip = PreLink.IPv4.ip
    /\ cfg.IPv4.bits # PreLink.IPv4.bits
    /\ IsOnline /\ activeLinks[defaultDataNetwork].IPv4 = PreLink.IPv4

\* C32 (as claimed): for every attempts >= 0, zero included, a run of retry
\* has called f no more than attempts times.
C32_AtMostAttempts == CallsIn(rs.log) <= rs.attempts

\* the report entries the last RunChecks run has added
GainedChecks == SubSeq(hc.Checks, hc.base[1] + 1, Len(hc.Checks))
GainedFixes == SubSeq(hc.Fixes, hc.base[2] + 1, Len(hc.Fixes))
\* the positions in the trace of the calls made for the k-th check
TraceOf(what, k) ==
    {j \in 1..Len(hc.trace) : hc.trace[j].call = what /\ hc.trace[j].at = k}
\* the Checker of the k-th check was called and returned out
CheckerSaid(k, out) == \E j \in TraceOf("Checker", k) : hc.trace[j].out = out
\* the checks among the first k whose Checker returned false, in order
RECURSIVE FailedUpTo(_)
FailedUpTo(k) ==
    IF k = 0 THEN <<>>
    ELSE IF CheckerSaid(k, "false") THEN Append(FailedUpTo(k - 1), k)
    ELSE FailedUpTo(k - 1)
\* some Checker of the run returned an error
CheckerFailed ==
    \E j \in 1..Len(hc.trace) :
        hc.trace[j].call = "Checker" /\ hc.trace[j].out = "error"

\* C33: a RunChecks run returns nil exactly when no Checker returned an
\* error, whatever the Fixers returned; it has then called the Checker of
\* every enlisted check once and added one Checks entry per check, ok for a
\* Checker that returned true and failed otherwise, and one Fixes entry per
\* check whose Checker returned false, failed where the Fixer returned an
\* error.
C33_ReportComplete ==
    (hc.pc = "idle" /\ hc.runs > 0) =>
        /\ hc.ret = HcNil <=> ~CheckerFailed
        /\ hc.ret = HcNil =>
              LET n == hc.base[3]
                  failed == FailedUpTo(n)
              IN  /\ Len(GainedChecks) = n
                  /\ \A k \in 1..n :
                        /\ Cardinality(TraceOf("Checker", k)) = 1
                        /\ GainedChecks[k] =
                              Item(hc.toDo[k].Name,
                                   IF CheckerSaid(k, "true") THEN "ok" ELSE "failed")
                  /\ Len(GainedFixes) = Len(failed)
                  /\ \A m \in 1..Len(failed) :
                        /\ GainedFixes[m].Name = hc.toDo[failed[m]].Name
                        /\ \A j \in TraceOf("Fixer", failed[m]) :
                              GainedFixes[m].Status =
                                 IF hc.trace[j].out = "error" THEN "failed" ELSE "ok"

\* C33 witness: the Fixer of the first of three checks returned an error;
\* the run went on to the other two, one passing and one failing, and
\* returned nil
C33_Witness ==
    /\ hc.pc = "idle" /\ hc.ret = HcNil /\ hc.fix /\ hc.base[3] = 3
    /\ \E j \in TraceOf("Fixer", 1) : hc.trace[j].out = "error"
    /\ CheckerSaid(2, "true") /\ CheckerSaid(3, "false")
    /\ Len(GainedChecks) = 3 /\ Len(GainedFixes) = 2
    /\ GainedFixes[1].Status = "failed"

\* C34: with fix off no Fixer is called and every Fixes entry the run adds
\* is omitted, one per Checker that returned false; a Fixer is called only
\* with fix on, for a check whose Checker returned false, and once at most.
C34_FixOnlyWhenAsked ==
    /\ \A j \in 1..Len(hc.trace) :
          hc.trace[j].call = "Fixer" =>
              /\ hc.fix
              /\ CheckerSaid(hc.trace[j].at, "false")
              /\ ~CheckerSaid(hc.trace[j].at, "error")
              /\ TraceOf("Fixer", hc.trace[j].at) = {j}
    /\ (hc.runs > 0 /\ ~hc.fix) =>
          /\ \A m \in 1..Len(GainedFixes) : GainedFixes[m].Status = "omitted"
          /\ Len(GainedFixes) =
                Cardinality({j \in 1..Len(hc.trace) : hc.trace[j].out = "false"})

\* C34 witness: a run with fix off has found two checks failing and returned
C34_Witness ==
    /\ hc.pc = "idle" /\ hc.runs > 0 /\ ~hc.fix /\ hc.ret = HcNil
    /\ CheckerSaid(1, "false") /\ CheckerSaid(2, "true") /\ CheckerSaid(3, "false")
    /\ Len(GainedFixes) = 2 /\ GainedFixes[2].Status = "omitted"

\* C35: a Checker's error ends the run: it is the last call of the run, the
\* run has returned that error, the report has gained no entry for the check
\* and holds the entries of the checks before it, and nothing else.
C35_CheckerErrorStops ==
    \A j \in 1..Len(hc.trace) :
        (hc.trace[j].call = "Checker" /\ hc.trace[j].out = "error") =>
            LET k == hc.trace[j].at IN
            /\ j = Len(hc.trace)
            /\ hc.pc = "idle"
            /\ hc.ret = CheckerErr(k)
            /\ TraceOf("Fixer", k) = {}
            /\ Len(GainedChecks) = k - 1
            /\ \A i \in 1..(k - 1) :
                  GainedChecks[i] =
                     Item(hc.toDo[i].Name,
                          IF CheckerSaid(i, "true") THEN "ok" ELSE "failed")
            /\ Len(GainedFixes) = Len(FailedUpTo(k - 1))

\* C35 witness: the second of three checks returned an error after the first
\* had failed and been fixed
C35_Witness ==
    /\ hc.pc = "idle" /\ hc.fix /\ hc.base[3] = 3 /\ hc.ret = CheckerErr(2)
    /\ CheckerSaid(1, "false") /\ CheckerSaid(2, "error")
    /\ TraceOf("Fixer", 1) # {} /\ TraceOf("Checker", 3) = {}
    /\ Len(GainedChecks) = 1 /\ Len(GainedFixes) = 1

\* C36 (as claimed): a pass of a goroutine's wait loop made after the limit
\* has passed since the start of its wait is its last, whatever the API
\* answered: the goroutine ends, so that wg.Wait can return.
C36_WaitEnds ==
    [][\A i \in 1..k8.n :
          (/\ k8.pc = "wait" /\ k8.pods[i].pc = "get"
           /\ k8.now - k8.pods[i].start > WaitLimit
           /\ k8'.pods[i].pc # "get") =>
              k8'.pods[i].pc = "done"]_vars

\* C37 (as claimed): a ForEachCase call whose getAddTestsConfig returned an
\* error invokes fn for no case and returns the error that the test
\* parameters could not be parsed.
C37_ParseErrorStops ==
    (fc.runs > 0 /\ fc.err # "nil") =>
        /\ fc.fnCalls = <<>>
        /\ fc.pc = "idle"
        /\ fc.ret = ErrParse(fc.err)

=============================================================================
